---- MODULE Spec2Model ----
(***************************************************************************)
(* FreePBX 17 admin UI (src/src/App.jsx) as a state machine.               *)
(*                                                                         *)
(* The program is a single-threaded React application.  One action of the  *)
(* model is one browser task: a UI event handler, or the continuation of   *)
(* an async handler after its awaited request settles.  A mock API call    *)
(* is an async function that never suspends on the network: its promise    *)
(* settles in a microtask, before any other task runs, so a handler in     *)
(* mock mode runs to its end inside the action that starts it.  A remote   *)
(* call is in flight between the action that issues it and the action      *)
(* that delivers its response; the REST server handles it in between.      *)
(*                                                                         *)
(* An extension record is reduced to id, name and the __optimistic flag:   *)
(* tech, callerid, voicemail and vm_email are copied wherever name is      *)
(* and never inspected by the code.  The field obj is the identity of a    *)
(* JavaScript object, kept only for the objects createExt compares with    *)
(* === (its `optimistic` object); every other object has obj = 0.          *)
(***************************************************************************)
EXTENDS Integers, Sequences, FiniteSets, TLC

VARIABLES
  useMock,    \* cfg.useMock
  cfgRev,     \* revision of cfg.baseURL / cfg.apiKey (each edit is a new value)
  role,       \* App: role
  audit,      \* App: audit
  mockExt,    \* module-level MOCK_EXTENSIONS
  server,     \* the remote PBX's extension records
  srvNextId,  \* the id the remote PBX gives to its next created extension
  data,       \* ExtensionsPanel: data
  loading,    \* ExtensionsPanel: loading
  modalOpen,  \* ExtensionsPanel: modalOpen
  editRow,    \* ExtensionsPanel: editRow
  ops,        \* every load / create / update / delete started, with its closure
  crashed,    \* a render threw: React unmounted the application
  roleRev,    \* how often the role select has been changed
  last,       \* the task that ran last
  pushes,     \* pushAudit calls so far
  cRows,      \* CallLogsPanel: rows (the ids of the call records)
  cTotal,     \* CallLogsPanel: total
  cExt,       \* CallLogsPanel: ext
  cPage,      \* CallLogsPanel: page
  cPageSize,  \* CallLogsPanel: pageSize
  cLoading,   \* CallLogsPanel: loading
  cReqs,      \* GET /cdr requests in flight, with the closure of their load()
  cCount,     \* load() calls so far
  cLast,      \* the Call Logs task that ran last (apply: Apply with no request in
              \* flight; apply_ok: answers to the requests of that Apply)
  cShown,     \* the query whose answer the rows on display are
  cApplied,   \* the extension filter as it was at the last Apply (or at mount)
  page,       \* the loaded rows handed to downloadCsv
  csv,        \* the text of the last export
  csvPrev,    \* the text of the export before it, of the same rows
  exports,    \* exports of the loaded rows so far
  ariWS,      \* cfg.ariWS
  status,     \* useAriStatus: status
  socks,      \* every WebSocket the feed has opened, with its readyState
  wsCleanup,  \* the socket the pending effect cleanup closes (0: no cleanup)
  feedMounted,\* the Status Panel is mounted
  feedRev,    \* changes of the mock flag / feed URL so far
  msgs,       \* message events delivered so far
  fLast       \* the feed handler that ran last, and the status before it

\* The panels are separate components: they share cfg and role, and the
\* Extensions Panel pushes to the audit log.  Each specification below follows
\* one of them and leaves the state of the others alone.
cfgVars == <<useMock, cfgRev>>
extVars == <<role, audit, mockExt, server, srvNextId, data, loading, modalOpen,
             editRow, ops, crashed, roleRev, last>>
callVars == <<cRows, cTotal, cExt, cPage, cPageSize, cLoading, cReqs, cCount, cLast,
              cShown, cApplied>>
csvVars == <<page, csv, csvPrev, exports>>
feedVars == <<ariWS, status, socks, wsCleanup, feedMounted, feedRev, msgs, fLast>>

vars == <<cfgVars, extVars, pushes, callVars, csvVars, feedVars>>

----------------------------------------------------------------------------
(* Bounds *)

MaxOps == 3       \* loads and mutations started in one run
MaxCfgRev == 1    \* edits of the base URL / API key in one run
MaxRoleRev == 1   \* changes of the role select in one run

(* Program constants *)

AuditCap == 200            \* pushAudit: .slice(0, 200)
PlaceholderBase == 900000  \* Math.floor(Math.random() * 1e9): a draw that
                           \* collides with no other id (see createExt)
NegInfinity == 0 - 1000000 \* Math.max() of no arguments

Roles == {"admin", "helpdesk"}
FormNames == {"Lobby", "Desk"}   \* names typed into the Extension Editor

----------------------------------------------------------------------------
(* Values *)

Ext(id, name, opt, obj) == [id |-> id, name |-> name, opt |-> opt, obj |-> obj]

null == Ext(0, "", FALSE, 0)
undefined == Ext(0 - 1, "undefined", FALSE, 0)

MOCK_EXTENSIONS ==
  << Ext(1001, "Reception", FALSE, 0),
     Ext(1002, "Sales", FALSE, 0),
     Ext(1003, "Support", FALSE, 0) >>

\* What the remote PBX holds to begin with: one extension the mock data also
\* has (under another name) and one it does not.
RemoteExtensions ==
  << Ext(1001, "Front", FALSE, 0),
     Ext(2001, "Remote", FALSE, 0) >>

RemoteFirstId == 2002

Min(a, b) == IF a < b THEN a ELSE b
Max(a, b) == IF a > b THEN a ELSE b

Map(s, F(_)) == [i \in DOMAIN s |-> F(s[i])]

Ids(s) == {s[i].id : i \in DOMAIN s}

findIndex(s, id) ==
  IF \E i \in DOMAIN s : s[i].id = id
  THEN CHOOSE i \in DOMAIN s : s[i].id = id /\ \A j \in 1..(i - 1) : s[j].id # id
  ELSE 0

RemoveAt(s, i) == SubSeq(s, 1, i - 1) \o SubSeq(s, i + 1, Len(s))

\* Math.max(...ids): -Infinity for no ids, and -Infinity + 1 = -Infinity.
MathMax(S) == IF S = {} THEN NegInfinity ELSE CHOOSE m \in S : \A x \in S : x <= m
Plus1(x) == IF x = NegInfinity THEN NegInfinity ELSE x + 1

\* structuredClone and a JSON response: new objects with the same fields.
structuredClone(s) == Map(s, LAMBDA r : Ext(r.id, r.name, r.opt, 0))

----------------------------------------------------------------------------
(* API layer, mock branches: the new MOCK_EXTENSIONS and the value returned *)

\* payload.id = 0 stands for a payload with no id key.
apiCreateExtensionMock(store, payload) ==
  LET nextId == Plus1(MathMax(Ids(store)))
      row == Ext(IF payload.id # 0 THEN payload.id ELSE nextId,
                 payload.name, payload.opt, 0)
  IN [store |-> Append(store, row), res |-> row]

apiUpdateExtensionMock(store, id, payload) ==
  LET i == findIndex(store, id)
  IN IF i > 0
     THEN LET row == Ext(IF payload.id # 0 THEN payload.id ELSE store[i].id,
                         payload.name, payload.opt \/ store[i].opt, 0)
          IN [store |-> [store EXCEPT ![i] = row], res |-> row]
     ELSE [store |-> store, res |-> undefined]

apiDeleteExtensionMock(store, id) ==
  LET idx == findIndex(store, id)
  IN IF idx > 0 THEN RemoveAt(store, idx) ELSE store

----------------------------------------------------------------------------
(* Root shell *)

AuditEntry(action, detail, user, op) ==
  [action |-> action, detail |-> detail, user |-> user, op |-> op]

\* setAudit(a => [{ ...entry, ts, user: role }, ...a].slice(0, 200)).  ts is a
\* wall-clock reading that nothing reads back; op, the operation that pushed
\* the entry, is bookkeeping of the model.
pushAuditOffByOne(a, entry) == SubSeq(<<entry>> \o a, 1, Min(Len(a) + 1, AuditCap + 1))
pushAudit(a, entry) == SubSeq(<<entry>> \o a, 1, Min(Len(a) + 1, AuditCap))

----------------------------------------------------------------------------
(* Extensions Panel: the state updaters of createExt, saveEdit, deleteExt *)

createExtInsert(d, optimistic) == <<optimistic>> \o d
createExtCommit(d, obj, saved) == Map(d, LAMBDA r : IF r.obj = obj THEN saved ELSE r)
createExtRollback(d, obj) == SelectSeq(d, LAMBDA r : r.obj # obj)

Merged(row, form) == Ext(IF form.id # 0 THEN form.id ELSE row.id, form.name,
                         form.opt \/ row.opt, 0)
saveEditApply(d, row, form) ==
  Map(d, LAMBDA r : IF r.id = row.id THEN Merged(row, form) ELSE r)
saveEditCommit(d, row, saved) == Map(d, LAMBDA r : IF r.id = row.id THEN saved ELSE r)
saveEditRollback(d, row) == Map(d, LAMBDA r : IF r.id = row.id THEN row ELSE r)

deleteExtApply(d, id) == SelectSeq(d, LAMBDA r : r.id # id)
deleteExtRollbackKept(d, prev) == d
deleteExtRollback(d, prev) == prev

canEdit == role = "admin"

\* A render of a list holding undefined throws on r.id: with no error
\* boundary React unmounts the whole application.  Its state is gone and no
\* handler can change it any more: the run of the application has ended.
Renders(d) == \A i \in DOMAIN d : d[i] # undefined

----------------------------------------------------------------------------
(* Operations started: the closure of the async handler and its request *)

Op(kind, st) ==
  [kind |-> kind, st |-> st, id |-> 0, form |-> null, obj |-> 0, row |-> null,
   prev |-> <<>>, res |-> null, list |-> <<>>, user |-> role, mock |-> useMock,
   shown |-> <<>>, before |-> null, seen |-> null, alert |-> ""]

Mutations == {"create", "update", "delete"}
InFlight(o) == o.st \in {"sent", "ok"}
Settled == \A k \in DOMAIN ops : ~InFlight(ops[k])

RowOf(d, id) == IF findIndex(d, id) > 0 THEN d[findIndex(d, id)] ELSE null

\* An operation that has ended keeps its kind, outcome, target and user only.
Done(o, st) ==
  [Op(o.kind, st) EXCEPT !.id = o.id, !.obj = o.obj, !.user = o.user, !.mock = o.mock]

\* The task that ran last: what it was, the operation it belongs to and that
\* operation's closure as the task found it.
Last(op, k, o) == [op |-> op, k |-> k, o |-> o]
NoOp == Op("none", "none")

----------------------------------------------------------------------------
(* Initial state: the application mounted in mock mode, first load done *)

InitCfg ==
  /\ useMock = TRUE
  /\ cfgRev = 0

InitExt ==
  /\ role = "admin"
  /\ audit = <<>>
  /\ mockExt = MOCK_EXTENSIONS
  /\ server = RemoteExtensions
  /\ srvNextId = RemoteFirstId
  /\ data = structuredClone(MOCK_EXTENSIONS)
  /\ loading = FALSE
  /\ modalOpen = FALSE
  /\ editRow = null
  /\ ops = <<>>
  /\ crashed = FALSE
  /\ roleRev = 0
  /\ last = Last("mount", 0, NoOp)

----------------------------------------------------------------------------
(* load(), run by the effect on cfg.baseURL, cfg.apiKey, cfg.useMock *)

load(mock) ==
  LET k == Len(ops) + 1
  IN IF mock
     THEN /\ data' = structuredClone(mockExt)
          /\ loading' = FALSE
          /\ ops' = Append(ops, [Op("load", "done_ok") EXCEPT !.mock = mock])
          /\ last' = Last("load", k, [Op("load", "done_ok") EXCEPT !.mock = mock])
     ELSE /\ data' = data
          /\ loading' = TRUE
          /\ ops' = Append(ops, [Op("load", "sent") EXCEPT !.mock = mock])
          /\ last' = Last("load", k, [Op("load", "sent") EXCEPT !.mock = mock])

SetUseMock ==
  /\ ~crashed
  /\ Len(ops) < MaxOps
  /\ useMock' = ~useMock
  /\ load(~useMock)
  /\ UNCHANGED <<cfgRev, role, audit, mockExt, server, srvNextId, modalOpen,
                 editRow, crashed, roleRev, pushes, callVars, csvVars, feedVars>>

SetBaseURL ==
  /\ ~crashed
  /\ Len(ops) < MaxOps
  /\ cfgRev < MaxCfgRev
  /\ cfgRev' = cfgRev + 1
  /\ load(useMock)
  /\ UNCHANGED <<useMock, role, audit, mockExt, server, srvNextId, modalOpen,
                 editRow, crashed, roleRev, pushes, callVars, csvVars, feedVars>>

SetRole(r) ==
  /\ ~crashed
  /\ r # role
  /\ roleRev < MaxRoleRev
  /\ roleRev' = roleRev + 1
  /\ role' = r
  /\ last' = Last("ui", 0, NoOp)
  /\ UNCHANGED <<useMock, cfgRev, audit, mockExt, server, srvNextId, data,
                 loading, modalOpen, editRow, ops, crashed, pushes, callVars,
                 csvVars, feedVars>>

----------------------------------------------------------------------------
(* Extensions Panel: buttons and the Extension Editor *)

\* New: setModalOpen(true); with the editor already open nothing changes.
ClickNew ==
  /\ ~crashed
  /\ canEdit
  /\ ~modalOpen
  /\ modalOpen' = TRUE
  /\ last' = Last("ui", 0, NoOp)
  /\ UNCHANGED <<useMock, cfgRev, role, audit, mockExt, server, srvNextId,
                 data, loading, editRow, ops, crashed, roleRev, pushes, callVars, csvVars, feedVars>>

ClickEdit(i) ==
  /\ ~crashed
  /\ canEdit
  /\ ~loading
  /\ i \in DOMAIN data
  /\ editRow' = data[i]
  /\ modalOpen' = TRUE
  /\ last' = Last("ui", 0, NoOp)
  /\ UNCHANGED <<useMock, cfgRev, role, audit, mockExt, server, srvNextId,
                 data, loading, ops, crashed, roleRev, pushes, callVars, csvVars, feedVars>>

ModalClose ==
  /\ ~crashed
  /\ modalOpen
  /\ modalOpen' = FALSE
  /\ editRow' = null
  /\ last' = Last("ui", 0, NoOp)
  /\ UNCHANGED <<useMock, cfgRev, role, audit, mockExt, server, srvNextId,
                 data, loading, ops, crashed, roleRev, pushes, callVars, csvVars, feedVars>>

\* The form the editor submits: its initial value (editRow, or the blank form)
\* with the name typed over.  A blank form has no id key (id = 0).
Form(initial, name) == Ext(initial.id, name, initial.opt, 0)

createExt(form) ==
  LET k == Len(ops) + 1
      optimistic == Ext(PlaceholderBase + k, form.name, TRUE, k)
      shown == createExtInsert(data, optimistic)
      entry == AuditEntry("create_extension", form.name, role, k)
      op == [Op("create", "sent") EXCEPT !.form = form, !.obj = k, !.row = optimistic]
  IN /\ audit' = pushAudit(audit, entry)
     /\ IF useMock
        THEN LET r == apiCreateExtensionMock(mockExt, form)
             IN /\ mockExt' = r.store
                /\ data' = createExtCommit(shown, k, r.res)
                /\ ops' = Append(ops, Done(op, "done_ok"))
                /\ last' = Last("createExt", k, [op EXCEPT !.st = "done_ok", !.res = r.res])
        ELSE /\ mockExt' = mockExt
             /\ data' = shown
             /\ ops' = Append(ops, op)
             /\ last' = Last("createExt", k, op)
     /\ crashed' = crashed

saveEdit(row, form) ==
  LET k == Len(ops) + 1
      shown == saveEditApply(data, row, form)
      entry == AuditEntry("update_extension", ToString(row.id), role, k)
      op == [Op("update", "sent") EXCEPT !.id = row.id, !.form = form, !.row = row,
                                         !.before = RowOf(data, row.id)]
  IN /\ audit' = pushAudit(audit, entry)
     /\ IF useMock
        THEN LET r == apiUpdateExtensionMock(mockExt, row.id, form)
                 d == saveEditCommit(shown, row, r.res)
             IN /\ mockExt' = r.store
                /\ data' = d
                /\ crashed' = ~Renders(d)
                /\ ops' = Append(ops, Done(op, "done_ok"))
                /\ last' = Last("saveEdit", k, [op EXCEPT !.st = "done_ok", !.res = r.res])
        ELSE /\ mockExt' = mockExt
             /\ data' = shown
             /\ crashed' = crashed
             /\ ops' = Append(ops, op)
             /\ last' = Last("saveEdit", k, op)

\* Save / Create in the editor: onSubmit(form); onClose().
ModalSubmit(name) ==
  /\ ~crashed
  /\ modalOpen
  /\ Len(ops) < MaxOps
  /\ IF editRow # null
     THEN saveEdit(editRow, Form(editRow, name))
     ELSE createExt(Form(null, name))
  /\ modalOpen' = FALSE
  /\ editRow' = null
  /\ UNCHANGED <<useMock, cfgRev, role, server, srvNextId, loading, roleRev, pushes, callVars, csvVars, feedVars>>

deleteExt(id) ==
  LET k == Len(ops) + 1
      prev == data
      entry == AuditEntry("delete_extension", ToString(id), role, k)
      op == [Op("delete", "sent") EXCEPT !.id = id, !.prev = prev, !.shown = data]
  IN /\ data' = deleteExtApply(data, id)
     /\ audit' = pushAudit(audit, entry)
     /\ IF useMock
        THEN /\ mockExt' = apiDeleteExtensionMock(mockExt, id)
             /\ ops' = Append(ops, Done(op, "done_ok"))
             /\ last' = Last("deleteExt", k, [op EXCEPT !.st = "done_ok"])
        ELSE /\ mockExt' = mockExt
             /\ ops' = Append(ops, op)
             /\ last' = Last("deleteExt", k, op)

\* Delete on row i, answering the confirm() dialog with yes.
ClickDelete(i, yes) ==
  /\ ~crashed
  /\ canEdit
  /\ ~loading
  /\ i \in DOMAIN data
  /\ Len(ops) < MaxOps
  /\ IF yes
     THEN deleteExt(data[i].id)
     ELSE /\ last' = Last("ui", 0, NoOp)
          /\ UNCHANGED <<data, audit, mockExt, ops>>
  /\ UNCHANGED <<useMock, cfgRev, role, server, srvNextId, loading, modalOpen,
                 editRow, crashed, roleRev, pushes, callVars, csvVars, feedVars>>

----------------------------------------------------------------------------
(* The remote PBX: GET/POST /extensions, PUT/DELETE /extensions/{id}.       *)
(* It returns records of the shape the API layer expects and keeps none of *)
(* the client's bookkeeping keys.                                          *)

RemoteAccept(k) ==
  LET o == ops[k]
      i == findIndex(server, o.id)
  IN /\ k \in DOMAIN ops
     /\ o.st = "sent"
     /\ CASE o.kind = "load" ->
               /\ ops' = [ops EXCEPT ![k].st = "ok", ![k].list = structuredClone(server)]
               /\ UNCHANGED <<server, srvNextId>>
          [] o.kind = "create" ->
               LET row == Ext(srvNextId, o.form.name, FALSE, 0)
               IN /\ server' = Append(server, row)
                  /\ srvNextId' = srvNextId + 1
                  /\ ops' = [ops EXCEPT ![k].st = "ok", ![k].res = row]
          [] o.kind = "update" ->
               LET row == Ext(o.id, o.form.name, FALSE, 0)
               IN /\ i > 0
                  /\ server' = [server EXCEPT ![i] = row]
                  /\ srvNextId' = srvNextId
                  /\ ops' = [ops EXCEPT ![k].st = "ok", ![k].res = row]
          [] o.kind = "delete" ->
               /\ i > 0
               /\ server' = RemoveAt(server, i)
               /\ srvNextId' = srvNextId
               /\ ops' = [ops EXCEPT ![k].st = "ok"]
     /\ last' = Last("remote", k, NoOp)
     /\ UNCHANGED <<useMock, cfgRev, role, audit, mockExt, data, loading,
                    modalOpen, editRow, crashed, roleRev, pushes, callVars, csvVars, feedVars>>

----------------------------------------------------------------------------
(* The handlers resume after their await *)

ResumeOk(k) ==
  LET o == ops[k]
  IN /\ ~crashed
     /\ k \in DOMAIN ops
     /\ o.st = "ok"
     /\ data' = CASE o.kind = "load" -> o.list
                  [] o.kind = "create" -> createExtCommit(data, o.obj, o.res)
                  [] o.kind = "update" -> saveEditCommit(data, o.row, o.res)
                  [] o.kind = "delete" -> data
     /\ loading' = IF o.kind = "load" THEN FALSE ELSE loading
     /\ ops' = [ops EXCEPT ![k] = Done(o, "done_ok")]
     /\ last' = Last("resume", k, [o EXCEPT !.st = "done_ok", !.seen = RowOf(data, o.id)])
     /\ UNCHANGED <<useMock, cfgRev, role, audit, mockExt, server, srvNextId,
                    modalOpen, editRow, crashed, roleRev, pushes, callVars, csvVars, feedVars>>

RollbackEntryMistagged(o, k) ==
  AuditEntry("rollback_update_extension",
             IF o.kind = "create" THEN o.form.name ELSE ToString(o.id), o.user, k)
RollbackEntry(o, k) ==
  CASE o.kind = "create" -> AuditEntry("rollback_create_extension", o.form.name, o.user, k)
    [] o.kind = "update" -> AuditEntry("rollback_update_extension", ToString(o.id), o.user, k)
    [] o.kind = "delete" -> AuditEntry("rollback_delete_extension", ToString(o.id), o.user, k)

\* What the catch block of the handler shows with alert(); load() has no
\* catch block (try / finally): its rejection is shown nowhere.
alert(o) ==
  CASE o.kind = "create" -> "Failed to create extension"
    [] o.kind = "update" -> "Failed to save changes"
    [] o.kind = "delete" -> "Failed to delete extension"
    [] OTHER -> ""

\* The request is rejected (no route, a timeout, a 4xx/5xx answer) without
\* effect on the remote PBX, and the handler resumes in its catch block.
ResumeFail(k) ==
  LET o == ops[k]
  IN /\ ~crashed
     /\ k \in DOMAIN ops
     /\ o.st = "sent"
     /\ data' = CASE o.kind = "load" -> data
                  [] o.kind = "create" -> createExtRollback(data, o.obj)
                  [] o.kind = "update" -> saveEditRollback(data, o.row)
                  [] o.kind = "delete" -> deleteExtRollback(data, o.prev)
     /\ audit' = IF o.kind = "load" THEN audit ELSE pushAudit(audit, RollbackEntry(o, k))
     /\ loading' = IF o.kind = "load" THEN FALSE ELSE loading
     /\ ops' = [ops EXCEPT ![k] = Done(o, "done_fail")]
     /\ last' = Last("resume", k, [o EXCEPT !.st = "done_fail", !.alert = alert(o)])
     /\ UNCHANGED <<useMock, cfgRev, role, mockExt, server, srvNextId,
                    modalOpen, editRow, crashed, roleRev, pushes, callVars, csvVars, feedVars>>

----------------------------------------------------------------------------

NextExt ==
  \/ SetUseMock
  \/ SetBaseURL
  \/ \E r \in Roles : SetRole(r)
  \/ ClickNew
  \/ \E i \in 1..(Len(data)) : ClickEdit(i)
  \/ ModalClose
  \/ \E n \in FormNames : ModalSubmit(n)
  \/ \E i \in 1..(Len(data)), yes \in BOOLEAN : ClickDelete(i, yes)
  \/ \E k \in 1..MaxOps : RemoteAccept(k)
  \/ \E k \in 1..MaxOps : ResumeOk(k)
  \/ \E k \in 1..MaxOps : ResumeFail(k)

----------------------------------------------------------------------------
(* Call Logs Panel *)

MaxLoads == 4          \* load() calls of the Call Logs Panel in one run

MockCallCount == 137   \* MOCK_CALLS: Array.from({ length: 137 })
DefaultPageSize == 20  \* useState(20)
PageSizes == {10, 20, 50, 100}
ExtFilters == {"", "1001"}   \* what is typed into "Filter by ext"

\* The remote PBX holds fewer call records than the mock data, of the same
\* make, under ids of its own.
RemoteCallCount == 25
RemoteIdBase == 1000

\* MOCK_CALLS[i].src and .dst
CallSrc(i) == IF i % 3 = 0 THEN "0400123456" ELSE ToString(1001 + (i % 5))
CallDst(i) == ToString(1001 + (i % 7))

\* The filter of apiFetchCalls on ext (an empty ext is falsy: no filter).
MatchesExt(i, ext) == ext = "" \/ CallSrc(i) = ext \/ CallDst(i) = ext

\* rows.slice(start, start + pageSize)
Slice(s, start, end) == SubSeq(s, start + 1, Min(end, Len(s)))

FetchCalls(count, base, q) ==
  LET all == [i \in 1..count |-> i - 1]
      rows == SelectSeq(all, LAMBDA i : MatchesExt(i, q.ext))
      start == (q.page - 1) * q.pageSize
  IN [rows |-> Map(Slice(rows, start, start + q.pageSize), LAMBDA i : base + i + 1),
      total |-> Len(rows)]

apiFetchCallsMock(q) == FetchCalls(MockCallCount, 0, q)
apiFetchCallsRemote(q) == FetchCalls(RemoteCallCount, RemoteIdBase, q)

Ceil(a, b) == (a + b - 1) \div b
totalPages == Max(1, Ceil(cTotal, cPageSize))

\* The closure of one load(): the filter, page and page size of the render
\* that made it.
Query(ext, pg, size) == [ext |-> ext, page |-> pg, pageSize |-> size]

InitCalls ==
  /\ cRows = apiFetchCallsMock(Query("", 1, DefaultPageSize)).rows
  /\ cTotal = apiFetchCallsMock(Query("", 1, DefaultPageSize)).total
  /\ cExt = ""
  /\ cPage = 1
  /\ cPageSize = DefaultPageSize
  /\ cLoading = FALSE
  /\ cReqs = <<>>
  /\ cCount = 0
  /\ cLast = "mount"
  /\ cShown = Query("", 1, DefaultPageSize)
  /\ cApplied = ""

\* load() is called for each query of qs in turn.  With mock data every call
\* runs to its end before the next task, the last one setting the rows.
callsLoad(mock, qs) ==
  /\ cCount + Len(qs) <= MaxLoads
  /\ cCount' = cCount + Len(qs)
  /\ IF mock
     THEN /\ cRows' = apiFetchCallsMock(qs[Len(qs)]).rows
          /\ cTotal' = apiFetchCallsMock(qs[Len(qs)]).total
          /\ cLoading' = FALSE
          /\ cReqs' = cReqs
          /\ cShown' = qs[Len(qs)]
     ELSE /\ cRows' = cRows
          /\ cTotal' = cTotal
          /\ cLoading' = TRUE
          /\ cReqs' = cReqs \o qs
          /\ cShown' = cShown

CallsSetUseMock ==
  /\ useMock' = ~useMock
  /\ callsLoad(~useMock, <<Query(cExt, cPage, cPageSize)>>)
  /\ cLast' = "cfg"
  /\ UNCHANGED <<extVars, pushes, csvVars, feedVars>>
  /\ UNCHANGED <<cfgRev, cExt, cPage, cPageSize, cApplied>>

CallsSetBaseURL ==
  /\ cfgRev < MaxCfgRev
  /\ cfgRev' = cfgRev + 1
  /\ callsLoad(useMock, <<Query(cExt, cPage, cPageSize)>>)
  /\ cLast' = "cfg"
  /\ UNCHANGED <<extVars, pushes, csvVars, feedVars>>
  /\ UNCHANGED <<useMock, cExt, cPage, cPageSize, cApplied>>

SetExt(e) ==
  /\ e # cExt
  /\ cExt' = e
  /\ cLast' = "filter"
  /\ UNCHANGED <<extVars, pushes, csvVars, feedVars>>
  /\ UNCHANGED <<cfgVars, cRows, cTotal, cPage, cPageSize, cLoading, cReqs, cCount,
                 cShown, cApplied>>

\* The page size select: setPageSize(n); setPage(1), then the effect.
SetPageSize(n) ==
  /\ n # cPageSize
  /\ cPageSize' = n
  /\ cPage' = 1
  /\ callsLoad(useMock, <<Query(cExt, 1, n)>>)
  /\ cLast' = "size"
  /\ UNCHANGED <<extVars, pushes, csvVars, feedVars>>
  /\ UNCHANGED <<cfgVars, cExt, cApplied>>

\* Apply: setPage(1); load() with the page of this render, then the effect
\* if the page has changed.
ClickApply ==
  /\ cPage' = 1
  /\ callsLoad(useMock,
               IF cPage = 1
               THEN <<Query(cExt, cPage, cPageSize)>>
               ELSE <<Query(cExt, cPage, cPageSize), Query(cExt, 1, cPageSize)>>)
  /\ cLast' = IF cReqs = <<>> THEN "apply" ELSE "apply_busy"
  /\ UNCHANGED <<extVars, pushes, csvVars, feedVars>>
  /\ cApplied' = cExt
  /\ UNCHANGED <<cfgVars, cExt, cPageSize>>

ClickPrev ==
  /\ ~(cPage <= 1)
  /\ cPage' = Max(1, cPage - 1)
  /\ callsLoad(useMock, <<Query(cExt, cPage', cPageSize)>>)
  /\ cLast' = "prev"
  /\ UNCHANGED <<extVars, pushes, csvVars, feedVars>>
  /\ UNCHANGED <<cfgVars, cExt, cPageSize, cApplied>>

ClickNext ==
  /\ ~(cPage >= totalPages)
  /\ cPage' = Min(totalPages, cPage + 1)
  /\ callsLoad(useMock, <<Query(cExt, cPage', cPageSize)>>)
  /\ cLast' = "next"
  /\ UNCHANGED <<extVars, pushes, csvVars, feedVars>>
  /\ UNCHANGED <<cfgVars, cExt, cPageSize, cApplied>>

\* A GET /cdr is answered and its load() resumes.
CallsResumeOk(k) ==
  /\ k \in DOMAIN cReqs
  /\ cRows' = apiFetchCallsRemote(cReqs[k]).rows
  /\ cTotal' = apiFetchCallsRemote(cReqs[k]).total
  /\ cLoading' = FALSE
  /\ cReqs' = RemoveAt(cReqs, k)
  /\ cShown' = cReqs[k]
  /\ cLast' = IF cLast \in {"apply", "apply_ok"} THEN "apply_ok" ELSE "resume"
  /\ UNCHANGED <<extVars, pushes, csvVars, feedVars>>
  /\ UNCHANGED <<cfgVars, cExt, cPage, cPageSize, cCount, cApplied>>

\* A GET /cdr is rejected: load() has no catch, its finally clears loading.
CallsResumeFail(k) ==
  /\ k \in DOMAIN cReqs
  /\ cLoading' = FALSE
  /\ cReqs' = RemoveAt(cReqs, k)
  /\ cLast' = "resume"
  /\ UNCHANGED <<extVars, pushes, csvVars, feedVars>>
  /\ UNCHANGED <<cfgVars, cRows, cTotal, cExt, cPage, cPageSize, cCount, cShown, cApplied>>

NextCalls ==
  \/ CallsSetUseMock
  \/ CallsSetBaseURL
  \/ \E e \in ExtFilters : SetExt(e)
  \/ \E n \in PageSizes : SetPageSize(n)
  \/ ClickApply
  \/ ClickPrev
  \/ ClickNext
  \/ \E k \in 1..MaxLoads : CallsResumeOk(k)
  \/ \E k \in 1..MaxLoads : CallsResumeFail(k)

----------------------------------------------------------------------------
(* CSV export.  A text is the sequence of its characters. *)

MaxRows == 2      \* rows of a loaded page handed to downloadCsv

Comma == ","
Quote == "\""
Newline == "\n"

\* The field names of a call record, and what its fields may hold.
CsvKeys == << <<"s", "r", "c">>, <<"d", "s", "t">> >>
CsvValues ==
  { <<>>, <<"a">>, <<Comma>>, <<Newline>>, <<Quote, "a">>, <<"a", Quote, "b">> }

\* A loaded row: its values in the order of its field names.
CsvRows == [1..Len(CsvKeys) -> CsvValues]
CsvPages == UNION {[1..n -> CsvRows] : n \in 0..MaxRows}

includes(v, c) == \E i \in DOMAIN v : v[i] = c

RECURSIVE replaceQuotes(_)
replaceQuotes(v) ==
  IF v = <<>> THEN <<>>
  ELSE (IF Head(v) = Quote THEN <<Quote, Quote>> ELSE <<Head(v)>>)
       \o replaceQuotes(Tail(v))

escape(v) ==
  IF includes(v, Comma) \/ includes(v, Newline)
  THEN <<Quote>> \o replaceQuotes(v) \o <<Quote>>
  ELSE v

RECURSIVE join(_, _)
join(parts, sep) ==
  IF parts = <<>> THEN <<>>
  ELSE IF Len(parts) = 1 THEN parts[1]
  ELSE parts[1] \o <<sep>> \o join(Tail(parts), sep)

\* The text downloadCsv puts into the Blob it offers for download.
downloadCsv(rows) ==
  LET headers == IF rows = <<>> THEN <<>> ELSE CsvKeys
      line(r) == join([h \in DOMAIN headers |-> escape(r[h])], Comma)
  IN join(<<join(headers, Comma)>> \o [i \in DOMAIN rows |-> line(rows[i])], Newline)

InitCsv ==
  /\ page = <<>>
  /\ csv = <<>>
  /\ csvPrev = <<>>
  /\ exports = 0

\* Any page of rows a load of the Call Logs Panel may have set.
InitCsvLoaded ==
  /\ page \in CsvPages
  /\ csv = <<>>
  /\ csvPrev = <<>>
  /\ exports = 0

\* Export CSV: downloadCsv(`cdr-export.csv`, rows).
ExportCsv ==
  /\ csv' = downloadCsv(page)
  /\ csvPrev' = csv
  /\ exports' = Min(exports + 1, 2)
  /\ page' = page
  /\ UNCHANGED <<cfgVars, extVars, pushes, callVars, feedVars>>

NextCsv == ExportCsv

----------------------------------------------------------------------------
(* Audit log on its own: mutation after mutation pushes an entry *)

MaxPushes == 203  \* pushAudit calls in one run

InitAudit == pushes = 0

AuditPush ==
  /\ pushes < MaxPushes
  /\ pushes' = pushes + 1
  /\ audit' = pushAudit(audit, AuditEntry("create_extension", "Lobby", role, pushes + 1))
  /\ UNCHANGED <<cfgVars, role, mockExt, server, srvNextId, data, loading,
                 modalOpen, editRow, ops, crashed, roleRev, last, callVars, csvVars, feedVars>>

\* The role select only varies the user field of the entries (Spec covers it);
\* here the role stays the one that may mutate.
NextAudit == AuditPush

----------------------------------------------------------------------------
(* Realtime status feed: useAriStatus and the Status Panel *)

MaxSocks == 3      \* WebSockets opened in one run
MaxMsgs == 2       \* message events delivered in one run
MaxFeedCfg == 4    \* changes of the mock flag / feed URL in one run

\* What the ARI WebSocket URL field may hold; "ws:" is a string the WebSocket
\* constructor rejects (it throws a SyntaxError).
Urls == {"", "wss://a/ari", "wss://b/ari", "ws:"}
Malformed == {"ws:"}

\* A JSON value under a key: the key is absent, or holds null, a string or an
\* array of entries (an entry stands by its name).
Absent == [t |-> "undefined", v |-> <<>>]
Null == [t |-> "null", v |-> <<>>]
Str == [t |-> "string", v |-> <<"down">>]
Arr(s) == [t |-> "array", v |-> s]
FieldVals == {Absent, Null, Str, Arr(<<>>), Arr(<<"live">>)}

Truthy(f) == f.t \in {"string", "array"}

MOCK_STATUS ==
  [trunks |-> Arr(<<"SIP Trunk AU-East", "SIP Trunk AU-West">>),
   queues |-> Arr(<<"600 Support", "700 Sales">>)]

\* evt.data of a message event: a text that is no JSON, or the JSON text of
\* null, of a number, or of an object with or without trunks / queues.
Obj(t, q) == [kind |-> "object", trunks |-> t, queues |-> q]
NotJson == [kind |-> "text", trunks |-> Absent, queues |-> Absent]
JsonNull == [kind |-> "null", trunks |-> Absent, queues |-> Absent]
JsonNumber == [kind |-> "number", trunks |-> Absent, queues |-> Absent]
Messages == {NotJson, JsonNull, JsonNumber} \cup {Obj(t, q) : t, q \in FieldVals}

\* JSON.parse(evt.data) throws on a text that is no JSON; msg.trunks throws on
\* null; both land in the handler's catch.
Throws(d) == d.kind \in {"text", "null"}

\* The snapshot an object message becomes: the object itself.
Snapshot(d) == [trunks |-> d.trunks, queues |-> d.queues]

\* ws.onmessage with interchanged acceptance: any object is taken.
onmessageAnyObject(s, d) ==
  IF d.kind = "object" THEN Snapshot(d) ELSE s

\* ws.onmessage that merges: a key the message lacks keeps its old value.
onmessageMerged(s, d) ==
  IF Throws(d) THEN s
  ELSE IF Truthy(d.trunks) \/ Truthy(d.queues)
  THEN [trunks |-> IF d.trunks = Absent THEN s.trunks ELSE d.trunks,
        queues |-> IF d.queues = Absent THEN s.queues ELSE d.queues]
  ELSE s

\* ws.onmessage: the status after the handler, from the status s before it.
onmessage(s, d) ==
  IF Throws(d) THEN s
  ELSE IF Truthy(d.trunks) \/ Truthy(d.queues) THEN Snapshot(d)
  ELSE s

\* StatusPanel renders status.trunks.map(...) and status.queues.map(...):
\* both have to be arrays.
StatusRenders(s) == s.trunks.t = "array" /\ s.queues.t = "array"

Sock(url, st) == [url |-> url, st |-> st]
Live == {"connecting", "open"}

\* A cleanup that closes nothing.
closeNothing(ss, k) == ss

\* The cleanup of the effect that opened socket k: ws.close().  Closing a
\* socket that is closing or closed does nothing; k = 0: no cleanup returned.
close(ss, k) ==
  [j \in DOMAIN ss |->
     IF j = k /\ ss[j].st \in Live THEN Sock(ss[j].url, "closing") ELSE ss[j]]

FLast(op, d, before, n) == [op |-> op, msg |-> d, before |-> before, nsocks |-> n]

InitFeed ==
  /\ ariWS = ""
  /\ status = MOCK_STATUS
  /\ socks = <<>>
  /\ wsCleanup = 0
  /\ feedMounted = TRUE
  /\ feedRev = 0
  /\ msgs = 0
  /\ fLast = FLast("mount", NotJson, MOCK_STATUS, 0)

\* The effect of useAriStatus after cfg.useMock / cfg.ariWS became mock / url:
\* the cleanup of the previous run, then the body.
FeedEffect(mock, url) ==
  /\ feedMounted
  /\ feedRev < MaxFeedCfg
  /\ feedRev' = feedRev + 1
  /\ useMock' = mock
  /\ ariWS' = url
  /\ IF mock \/ url = ""
     THEN /\ status' = MOCK_STATUS
          /\ socks' = close(socks, wsCleanup)
          /\ wsCleanup' = 0
     ELSE IF url \in Malformed
     THEN \* new WebSocket(ariWS) throws: the catch block
          /\ status' = MOCK_STATUS
          /\ socks' = close(socks, wsCleanup)
          /\ wsCleanup' = 0
     ELSE /\ Len(socks) < MaxSocks
          /\ socks' = Append(close(socks, wsCleanup), Sock(url, "connecting"))
          /\ wsCleanup' = Len(socks) + 1
          /\ status' = status
  /\ fLast' = FLast("config", NotJson, status, Len(socks))
  /\ UNCHANGED <<cfgRev, extVars, pushes, callVars, csvVars, feedMounted, msgs>>

\* Use mock data checkbox
FeedSetUseMock == feedMounted /\ FeedEffect(~useMock, ariWS)

\* ARI WebSocket URL input
SetAriWS(u) == u # ariWS /\ FeedEffect(useMock, u)

\* The connection of socket k is established.
SockOpen(k) ==
  /\ k \in DOMAIN socks
  /\ socks[k].st = "connecting"
  /\ socks' = [socks EXCEPT ![k].st = "open"]
  /\ fLast' = FLast("open", NotJson, status, Len(socks))
  /\ UNCHANGED <<cfgVars, extVars, pushes, callVars, csvVars, ariWS, status,
                 wsCleanup, feedMounted, feedRev, msgs>>

\* A message event on socket k (delivered only while the socket is open):
\* ws.onmessage, and the render of the Status Panel that setStatus causes.  A
\* render that throws unmounts the application, which runs the cleanup.
SockMessage(k, d) ==
  /\ k \in DOMAIN socks
  /\ socks[k].st = "open"
  /\ msgs < MaxMsgs
  /\ msgs' = msgs + 1
  /\ LET s == IF feedMounted THEN onmessage(status, d) ELSE status
     IN /\ status' = s
        /\ IF feedMounted /\ ~StatusRenders(s)
           THEN /\ feedMounted' = FALSE
                /\ socks' = close(socks, wsCleanup)
                /\ wsCleanup' = 0
           ELSE UNCHANGED <<feedMounted, socks, wsCleanup>>
  /\ fLast' = FLast("message", d, status, Len(socks))
  /\ UNCHANGED <<cfgVars, extVars, pushes, callVars, csvVars, ariWS, feedRev>>

\* Socket k fails or is closed by the peer: ws.onerror / ws.onclose do nothing.
SockFail(k) ==
  /\ k \in DOMAIN socks
  /\ socks[k].st \in Live
  /\ socks' = [socks EXCEPT ![k].st = IF socks[k].st = "connecting" THEN "failed" ELSE "closed"]
  /\ fLast' = FLast("fail", NotJson, status, Len(socks))
  /\ UNCHANGED <<cfgVars, extVars, pushes, callVars, csvVars, ariWS, status,
                 wsCleanup, feedMounted, feedRev, msgs>>

\* The closing handshake of socket k ends: ws.onclose does nothing.
SockClosed(k) ==
  /\ k \in DOMAIN socks
  /\ socks[k].st = "closing"
  /\ socks' = [socks EXCEPT ![k].st = "closed"]
  /\ fLast' = FLast("closed", NotJson, status, Len(socks))
  /\ UNCHANGED <<cfgVars, extVars, pushes, callVars, csvVars, ariWS, status,
                 wsCleanup, feedMounted, feedRev, msgs>>

\* The Status Panel is unmounted (the root is torn down): the cleanup runs.
FeedUnmount ==
  /\ feedMounted
  /\ feedMounted' = FALSE
  /\ socks' = close(socks, wsCleanup)
  /\ wsCleanup' = 0
  /\ fLast' = FLast("unmount", NotJson, status, Len(socks))
  /\ UNCHANGED <<cfgVars, extVars, pushes, callVars, csvVars, ariWS, status,
                 feedRev, msgs>>

NextFeed ==
  \/ FeedSetUseMock
  \/ \E u \in Urls : SetAriWS(u)
  \/ \E k \in 1..MaxSocks : SockOpen(k)
  \/ \E k \in 1..MaxSocks, d \in Messages : SockMessage(k, d)
  \/ \E k \in 1..MaxSocks : SockFail(k)
  \/ \E k \in 1..MaxSocks : SockClosed(k)
  \/ FeedUnmount

----------------------------------------------------------------------------
(* The mock store on its own: the API layer called in mock mode, call after *)
(* call, with the payloads the Extension Editor makes                       *)

MaxCalls == 5   \* calls of the API layer in one run

\* The ids a call may name: those in the store, and one the store may lack.
TargetIds == Ids(mockExt) \cup {1001}

MockCall(op, o) ==
  /\ useMock
  /\ last.k < MaxCalls
  /\ last' = Last(op, last.k + 1, [o EXCEPT !.prev = mockExt])
  /\ UNCHANGED <<cfgVars, role, audit, server, srvNextId, data, loading, modalOpen,
                 editRow, ops, crashed, roleRev, pushes, callVars, csvVars, feedVars>>

\* apiCreateExtension(cfg, form) with the form of a new extension
MockCreate(name) ==
  LET r == apiCreateExtensionMock(mockExt, Form(null, name))
  IN /\ mockExt' = r.store
     /\ MockCall("apiCreateExtension", [Op("create", "done_ok") EXCEPT !.res = r.res])

\* apiUpdateExtension(cfg, id, form) with the form of the row of that id
MockUpdate(id, name) ==
  LET payload == Ext(id, name, FALSE, 0)
      r == apiUpdateExtensionMock(mockExt, id, payload)
  IN /\ mockExt' = r.store
     /\ MockCall("apiUpdateExtension",
                 [Op("update", "done_ok") EXCEPT !.id = id, !.res = r.res])

\* apiDeleteExtension(cfg, id)
MockDelete(id) ==
  /\ mockExt' = apiDeleteExtensionMock(mockExt, id)
  /\ MockCall("apiDeleteExtension", [Op("delete", "done_ok") EXCEPT !.id = id])

NextMock ==
  \/ \E n \in FormNames : MockCreate(n)
  \/ \E id \in TargetIds, n \in FormNames : MockUpdate(id, n)
  \/ \E id \in TargetIds : MockDelete(id)

----------------------------------------------------------------------------
(* Specifications *)

Init == InitCfg /\ InitExt /\ InitAudit /\ InitCalls /\ InitCsv /\ InitFeed

\* The Extensions Panel, the role select and the audit log
Spec == Init /\ [][NextExt]_vars

\* The Call Logs Panel
SpecCalls == Init /\ [][NextCalls]_vars

\* CSV export of the loaded rows
InitLoaded == InitCfg /\ InitExt /\ InitAudit /\ InitCalls /\ InitCsvLoaded /\ InitFeed

SpecCsv == InitLoaded /\ [][NextCsv]_vars

\* The audit log under a long run of pushes
SpecAudit == Init /\ [][NextAudit]_vars

\* The realtime status feed
SpecFeed == Init /\ [][NextFeed]_vars

\* The mock store under a run of API calls
SpecMock == Init /\ [][NextMock]_vars


----------------------------------------------------------------------------
(* What the claims speak of *)

Fields(r) == <<r.id, r.name, r.opt>>
Records(s) == {Fields(s[i]) : i \in DOMAIN s}

\* The records the displayed list is a view of.
SourceOfTruth == IF useMock THEN mockExt ELSE server

AllSucceeded == \A k \in DOMAIN ops : ops[k].st = "done_ok"

\* The handler of operation kind has just run to its end with outcome st.
JustEnded(kind, st) ==
  /\ last.op \in {"createExt", "saveEdit", "deleteExt", "resume"}
  /\ last.o.kind = kind
  /\ last.o.st = st

JustStarted(kind) ==
  /\ last.op \in {"createExt", "saveEdit", "deleteExt"}
  /\ last.o.kind = kind

\* Audit entries with this tag pushed by operation k.
Pushed(action, k) ==
  {j \in DOMAIN audit : audit[j].action = action /\ audit[j].op = k}

ActionTag(kind) ==
  CASE kind = "create" -> "create_extension"
    [] kind = "update" -> "update_extension"
    [] kind = "delete" -> "delete_extension"
    [] OTHER -> "none"

RollbackTag(kind) ==
  CASE kind = "create" -> "rollback_create_extension"
    [] kind = "update" -> "rollback_update_extension"
    [] kind = "delete" -> "rollback_delete_extension"
    [] OTHER -> "none"

----------------------------------------------------------------------------
\* C1: when a create, update or delete has just succeeded and every request
\* issued so far has completed successfully, the displayed list holds exactly
\* the records of the source of truth (the mock store in mock mode, the remote
\* PBX's records otherwise), with the same ids and field values.  Stated for
\* the runs in which every request went to the source that is now configured.
C1_ListMatchesSourceOfTruth ==
  (/\ \E kind \in Mutations : JustEnded(kind, "done_ok")
   /\ AllSucceeded
   /\ \A k \in DOMAIN ops : ops[k].mock = useMock
   /\ ~crashed)
  => /\ Records(data) = Records(SourceOfTruth)
     /\ Len(data) = Len(SourceOfTruth)

\* C2: when the rejection of a create has been handled, the displayed list
\* holds neither the placeholder of that create nor a row derived from it (a
\* row with the placeholder's id), and exactly one rollback_create_extension
\* entry has been pushed for it.
C2_FailedCreateLeavesNoPlaceholder ==
  JustEnded("create", "done_fail")
  => /\ \A i \in DOMAIN data :
          data[i].obj # last.o.obj /\ data[i].id # last.o.row.id
     /\ Cardinality(Pushed("rollback_create_extension", last.k)) = 1

\* C3: when the rejection of an update has been handled, the row with that id
\* (if the list showed one when the update was applied, and still shows one)
\* has the field values it had immediately before the update was applied, and
\* exactly one rollback_update_extension entry has been pushed for it.
C3_FailedUpdateRestoresPriorValues ==
  (JustEnded("update", "done_fail") /\ last.o.before # null)
  => /\ \A i \in DOMAIN data :
          data[i].id = last.o.id => Fields(data[i]) = Fields(last.o.before)
     /\ Cardinality(Pushed("rollback_update_extension", last.k)) = 1

\* C4: deleteExt removes the rows with the given id from the displayed list
\* as soon as the delete is confirmed; when its request is rejected, the
\* displayed list is again the list that was displayed when the delete was
\* initiated (same rows, same order) and exactly one
\* rollback_delete_extension entry has been pushed for it.
C4_DeleteRemovesThenRestores ==
  /\ JustStarted("delete")
     => /\ \A i \in DOMAIN data : data[i].id # last.o.id
        /\ data = SelectSeq(last.o.shown, LAMBDA r : r.id # last.o.id)
  /\ JustEnded("delete", "done_fail")
     => /\ data = last.o.shown
        /\ Cardinality(Pushed("rollback_delete_extension", last.k)) = 1

C4_Witness ==
  /\ JustEnded("delete", "done_fail")
  /\ last.o.user = "admin"
  /\ Len(data) >= 2
  /\ \E k \in DOMAIN ops : k # last.k /\ ops[k].kind \in Mutations

\* C5: every create, update or delete that was started has pushed exactly one
\* audit entry of its own tag, present while its request is still in flight,
\* and exactly one rollback entry if and only if its request has failed; the
\* rollback entry is newer than the action entry, and nothing else pushes
\* audit entries.
C5_OneEntryPlusOneRollbackOnFailure ==
  /\ \A k \in DOMAIN ops :
       IF ops[k].kind \in Mutations
       THEN /\ Cardinality(Pushed(ActionTag(ops[k].kind), k)) = 1
            /\ Cardinality(Pushed(RollbackTag(ops[k].kind), k))
                 = IF ops[k].st = "done_fail" THEN 1 ELSE 0
            /\ Cardinality({j \in DOMAIN audit : audit[j].op = k})
                 = IF ops[k].st = "done_fail" THEN 2 ELSE 1
            /\ \A i \in Pushed(RollbackTag(ops[k].kind), k) :
                 \A j \in Pushed(ActionTag(ops[k].kind), k) : i < j
       ELSE {j \in DOMAIN audit : audit[j].op = k} = {}
  /\ \A j \in DOMAIN audit : audit[j].op \in DOMAIN ops

C5_Witness ==
  /\ \E k \in DOMAIN ops : ops[k].kind \in Mutations /\ ops[k].st = "done_fail"
  /\ \E k \in DOMAIN ops : ops[k].kind \in Mutations /\ ops[k].st = "done_ok"
  /\ \E k \in DOMAIN ops : ops[k].kind = "load"
  /\ Len(audit) = 3

\* C7: createExt puts a pending row with a placeholder id at the head of the
\* displayed list, and when its request has succeeded the list holds the
\* record the request returned and no longer the placeholder.
C7_PlaceholderReplacedBySavedRecord ==
  /\ (JustStarted("create") /\ last.o.st = "sent")
     => /\ data # <<>>
        /\ data[1] = last.o.row
        /\ data[1].opt
  /\ JustEnded("create", "done_ok")
     => /\ \E i \in DOMAIN data : Fields(data[i]) = Fields(last.o.res)
        /\ \A i \in DOMAIN data : data[i].obj # last.o.obj

\* C8: createExt, saveEdit and deleteExt are only ever invoked while the
\* active role is admin.
C8_MutationsOnlyByAdmin ==
  (\E kind \in Mutations : JustStarted(kind)) => role = "admin"

----------------------------------------------------------------------------
\* C6: the audit log never holds more than 200 entries; they are the most
\* recently pushed entries, newest first; and a push leaves every entry
\* already there as it is and in its order, dropping only the oldest one
\* once the log is full.
C6_AuditLogCappedNewestFirst ==
  /\ [](/\ Len(audit) <= 200
        /\ Len(audit) = Min(pushes, 200)
        /\ \A i \in DOMAIN audit : audit[i].op = pushes - i + 1)
  /\ [][audit' # audit =>
          /\ Len(audit') = Min(Len(audit) + 1, 200)
          /\ \A i \in 2..Len(audit') : audit'[i] = audit[i - 1]]_vars

C6_Witness == pushes > 200 /\ Len(audit) = 200 /\ audit[200].op = pushes - 199

\* C9: once loading has settled, the page number of the Call Logs Panel is
\* at least 1 and at most max(1, ceil(total / pageSize)) for the total of the
\* loaded result.  Stated for the runs that leave the filter fields empty,
\* so that only Prev, Next, the page size, Apply and the configuration act.
C9_PageWithinTotalPages ==
  (/\ cReqs = <<>> /\ ~cLoading
   /\ cExt = "" /\ cTotal \in {MockCallCount, RemoteCallCount})
  => /\ 1 <= cPage
     /\ cPage <= Max(1, Ceil(cTotal, cPageSize))

----------------------------------------------------------------------------
(* A standard CSV reader (RFC 4180): a quote opening a field starts a quoted *)
(* field, in which commas and line breaks are data and "" is one quote.     *)

RECURSIVE ReadCsv(_, _, _, _, _)
ReadCsv(t, recs, cur, fld, mode) ==
  IF t = <<>> THEN Append(recs, Append(cur, fld))
  ELSE LET c == Head(t)
           rest == Tail(t)
       IN IF mode = "quoted"
          THEN IF c = Quote
               THEN ReadCsv(rest, recs, cur, fld, "closing")
               ELSE ReadCsv(rest, recs, cur, Append(fld, c), "quoted")
          ELSE IF mode = "closing" /\ c = Quote
          THEN ReadCsv(rest, recs, cur, Append(fld, Quote), "quoted")
          ELSE IF c = Comma
          THEN ReadCsv(rest, recs, Append(cur, fld), <<>>, "start")
          ELSE IF c = Newline
          THEN ReadCsv(rest, Append(recs, Append(cur, fld)), <<>>, <<>>, "start")
          ELSE IF mode = "start" /\ c = Quote
          THEN ReadCsv(rest, recs, cur, <<>>, "quoted")
          ELSE ReadCsv(rest, recs, cur, Append(fld, c), "plain")

CsvRecords(t) == ReadCsv(t, <<>>, <<>>, <<>>, "start")

\* C10: an export leaves the loaded rows as they are; its text is a header
\* line of the first row's field names followed by exactly one line (one CSV
\* record) per loaded row; and a second export of the same rows gives the
\* same text.
C10_ExportIsHeaderPlusOneLinePerRow ==
  exports >= 1
  => /\ Len(CsvRecords(csv)) = 1 + Len(page)
     /\ page # <<>> => CsvRecords(csv)[1] = CsvKeys
     /\ exports >= 2 => csv = csvPrev

----------------------------------------------------------------------------
\* A field as the standard quoting rules write it.
NeedsQuoting(v) == includes(v, Comma) \/ includes(v, Quote) \/ includes(v, Newline)
StandardField(v) ==
  IF NeedsQuoting(v) THEN <<Quote>> \o replaceQuotes(v) \o <<Quote>> ELSE v

\* C11: every field of an exported row is written per the standard CSV
\* quoting rules (enclosed in double quotes with embedded quotes doubled when
\* it holds a comma, a double quote or a newline, unchanged otherwise), so
\* that a standard CSV reader gets the original field values back.
C11_FieldsEscapedPerCsvRules ==
  (exports >= 1 /\ page # <<>>)
  => /\ \A i \in DOMAIN page : \A h \in DOMAIN CsvKeys :
          escape(page[i][h]) = StandardField(page[i][h])
     /\ CsvRecords(csv) = <<CsvKeys>> \o page

----------------------------------------------------------------------------
(* The realtime feed *)

LastMessage == fLast.msg
CarriesAKey(d) == d.kind = "object" /\ (d.trunks # Absent \/ d.queues # Absent)
Accepted(d) == d.kind = "object" /\ (Truthy(d.trunks) \/ Truthy(d.queues))
LiveSocks == {k \in DOMAIN socks : socks[k].st \in Live}

\* C12: a message that is no JSON, or an object carrying neither a trunks nor
\* a queues key, leaves the snapshot exactly as it was; only a message
\* carrying at least one of the two keys changes the snapshot.
C12_IgnoredMessagesLeaveSnapshot ==
  fLast.op = "message"
  => /\ ~CarriesAKey(LastMessage) => status = fLast.before
     /\ status # fLast.before => CarriesAKey(LastMessage)

\* A live snapshot is on display and a message that is no JSON has arrived.
C12_Witness ==
  /\ fLast.op = "message"
  /\ LastMessage = NotJson
  /\ fLast.before # MOCK_STATUS
  /\ status = fLast.before
  /\ feedMounted

\* C13: after an accepted message the snapshot is that message's content
\* exactly: its trunks and its queues, and nothing of the previous snapshot.
C13_SnapshotReplacedWholesale ==
  (fLast.op = "message" /\ Accepted(LastMessage))
  => /\ status.trunks = LastMessage.trunks
     /\ status.queues = LastMessage.queues

\* An accepted message with no queue entries has replaced a live snapshot
\* that had one.
C13_Witness ==
  /\ fLast.op = "message"
  /\ Accepted(LastMessage)
  /\ fLast.before.queues = Arr(<<"live">>)
  /\ LastMessage.queues = Arr(<<>>)
  /\ status = Snapshot(LastMessage)
  /\ feedMounted

\* C14: a message that carries trunks and omits queues is accepted and sets
\* the snapshot's trunks, the snapshot's queues stay those of the previous
\* snapshot, and the Status Panel can render the snapshot.
C14_TrunksOnlyMessageKeepsQueues ==
  (/\ fLast.op = "message"
   /\ LastMessage.kind = "object"
   /\ LastMessage.trunks.t = "array"
   /\ LastMessage.queues = Absent)
  => /\ status.trunks = LastMessage.trunks
     /\ status.queues = fLast.before.queues
     /\ StatusRenders(status)
     /\ feedMounted

\* C15: while the Status Panel is up, the snapshot is the static mock status
\* whenever mock mode is on or the feed URL is empty, whatever sockets were
\* opened before; and it is the static mock status when opening the
\* connection for the current URL has failed.
C15_MockFallbackWhenDisabledOrFailed ==
  feedMounted
  => /\ (useMock \/ ariWS = "") => status = MOCK_STATUS
     /\ (~useMock /\ ariWS \in Malformed) => status = MOCK_STATUS
     /\ (wsCleanup # 0 /\ socks[wsCleanup].st = "failed") => status = MOCK_STATUS

\* C18: at most one socket of the feed is not torn down, and it is the one
\* opened for the current configuration; a socket of a superseded
\* configuration is closed before the next is opened, none is left when the
\* feed is disabled or the panel unmounted; and when a socket closes or
\* errors the snapshot stays as it is and no socket is opened.
C18_SocketTornDownNoReconnect ==
  /\ Cardinality(LiveSocks) <= 1
  /\ \A k \in LiveSocks : k = Len(socks) /\ k = wsCleanup /\ socks[k].url = ariWS
  /\ (~feedMounted \/ useMock \/ ariWS = "") => LiveSocks = {}
  /\ fLast.op \in {"fail", "closed"}
     => /\ status = fLast.before
        /\ Len(socks) = fLast.nsocks

\* The socket of a superseded URL was closed, and the socket opened after it
\* has failed while a live snapshot was on display.
C18_Witness ==
  /\ fLast.op = "fail"
  /\ Len(socks) = 2
  /\ socks[1].st \in {"closing", "closed"}
  /\ socks[2].st \in {"failed", "closed"}
  /\ status # MOCK_STATUS
  /\ feedMounted

----------------------------------------------------------------------------
(* Ordering, failures, pending rows *)

\* Updates of extension id issued after operation k that have completed
\* successfully.
LaterUpdatesDone(k, id) ==
  {j \in DOMAIN ops : /\ j > k
                      /\ ops[j].kind = "update"
                      /\ ops[j].id = id
                      /\ ops[j].st = "done_ok"}

\* C17: when two updates of the same extension were issued one after the
\* other and both succeed, the displayed row reflects the one issued later
\* also when the response of the earlier one arrives last: that response
\* leaves the row as it found it.
C17_LaterIssuedMutationWins ==
  (/\ JustEnded("update", "done_ok")
   /\ last.op = "resume"
   /\ LaterUpdatesDone(last.k, last.o.id) # {})
  => RowOf(data, last.o.id) = last.o.seen

\* C19: when a rejected request (list extensions, create, update, delete) has
\* been handled, an alert has been shown, the loading flag of a list request
\* is cleared, and the optimistic change of the request is gone from the
\* list: no row with the placeholder id of a failed create, and the row of a
\* failed delete is back.
C19_FailureAlertsAndRollsBack ==
  (last.op = "resume" /\ last.o.st = "done_fail")
  => /\ last.o.alert # ""
     /\ last.o.kind = "load" => ~loading
     /\ last.o.kind = "create"
        => \A i \in DOMAIN data : data[i].id # PlaceholderBase + last.k
     /\ last.o.kind = "delete" => data = last.o.shown

\* C20: once no request is in flight, no row of the displayed list is flagged
\* pending and every element of the list is an extension record.
C20_NoPendingRowOnceSettled ==
  Settled
  => \A i \in DOMAIN data : data[i] # undefined /\ ~data[i].opt

----------------------------------------------------------------------------
\* The load() issued last, for the page and page size now selected: done
\* (mock data) or in flight (remote).
ReloadedForPage ==
  IF useMock
  THEN cShown.page = cPage /\ cShown.pageSize = cPageSize
  ELSE /\ cReqs # <<>>
       /\ cReqs[Len(cReqs)].page = cPage
       /\ cReqs[Len(cReqs)].pageSize = cPageSize

\* C16: a change of the page or of the page size reloads the call records by
\* itself, and the rows that reload puts on display are those of the
\* extension filter as it was at the most recent Apply (or at the initial
\* load), whatever was typed into the filter field since.
C16_FiltersTakeEffectOnlyOnApply ==
  /\ cLast \in {"prev", "next", "size"} => ReloadedForPage
  /\ (cLast \in {"prev", "next", "size"} /\ cReqs = <<>> /\ ~cLoading)
     => cShown.ext = cApplied

----------------------------------------------------------------------------
\* What apiFetchCalls returns for query q from the source now configured.
FetchNow(q) == IF useMock THEN apiFetchCallsMock(q) ELSE apiFetchCallsRemote(q)

\* C21: after Apply (pressed with no request in flight), once every request
\* it triggers has been answered, in whatever order, the page indicator is 1 and the rows and the total on display are those of
\* page 1 for the extension filter as it was at Apply.
C21_ApplyShowsPageOne ==
  (cLast \in {"apply", "apply_ok"} /\ cReqs = <<>> /\ ~cLoading)
  => /\ cPage = 1
     /\ cRows = FetchNow(Query(cApplied, 1, cPageSize)).rows
     /\ cTotal = FetchNow(Query(cApplied, 1, cPageSize)).total

----------------------------------------------------------------------------
\* C22: after any run of mock-mode API calls the ids in the mock store are
\* pairwise distinct, and the id given to a created extension is a finite
\* number greater than every id the store held when it was created, also
\* when deletes had emptied the store.
C22_MockIdsUniqueAndIncreasing ==
  /\ \A i, j \in DOMAIN mockExt : i # j => mockExt[i].id # mockExt[j].id
  /\ last.op = "apiCreateExtension"
     => /\ last.o.res.id # NegInfinity
        /\ \A i \in DOMAIN last.o.prev : last.o.res.id > last.o.prev[i].id

====
